---- MODULE Spec2Model ----
(***************************************************************************)
(* Order reconciliation of the donation system: one persisted order, the   *)
(* polling goroutine started for it by CreateOrder, and concurrent gateway *)
(* callbacks handled by the routes package and PaymentService.             *)
(*                                                                         *)
(* The repository holds two routes packages around the same service: the   *)
(* gin one (routes/api.go, wired by main.go) and the fasthttp one          *)
(* (unnamed/part_004, part_005).  `build` says which one is linked.        *)
(***************************************************************************)
EXTENDS Integers, FiniteSets, TLC

\* Number of callback requests the gateway delivers for the order.
MaxWebhooks == 2

Webhooks == 1..MaxWebhooks

\* Number of WebSocket connections opened, and of broadcasts made.
MaxConns == 2
MaxBroadcasts == 2

ConnIDs == 1..MaxConns

\* Number of concurrent CreateOrder calls, of calendar days they span, and of
\* terminal keys the gateway hands out per terminal at check-in.
MaxCallers == 2
MaxDays == 2
MaxRotations == 1

Callers == 1..MaxCallers
Days == 1..MaxDays

\* Longest time, in seconds, one QueryOrder call takes in the timed poller.
MaxQuerySeconds == 2

QueryDurations == 0..MaxQuerySeconds

\* Seconds of the clock during order creation, and values rand.Intn can
\* give (10000 in the program).
MaxSeconds == 2
MaxRand == 2

Seconds == 1..MaxSeconds
Rands == 0..(MaxRand - 1)

VARIABLES
    build,              \* "gin" | "fasthttp": the routes package in use
    order,              \* the donations row: Status, Payment, OpenID, PayerUID
    BroadcastedOrders,  \* PaymentService.BroadcastedOrders holds the order id
    pollPc,             \* position of startPaymentPolling
    currentDonation,    \* Status read by the poller after its loop
    wh,                 \* per callback request: position, body, locals, response
    broadcasts,         \* broadcasts triggered for the order so far
    enrichments,        \* user-info lookups started for the order so far
    firstTerminal       \* status given by the first non-terminal -> terminal write, "" before it

\* WebSocketManager (unnamed/part_005).
VARIABLES
    Clients,            \* per connection id: its state and the filter given at upgrade
    writes,             \* goroutines started by a broadcast that have not finished
    lastBroadcast,      \* arguments and selection of the latest BroadcastToSpecific
    sent                \* number of broadcasts made so far

\* PaymentService configuration as CreateOrder and QueryOrder use it.
VARIABLES
    config,             \* PaymentService.config, shared by all requests
    lastSignInDate,     \* PaymentService.lastSignInDate, 0 for ""
    configCache,        \* PaymentService.configCache
    dbConfig,           \* payment_configs rows: the terminal key stored per id
    co,                 \* per CreateOrder call: position and locals
    today,              \* the calendar day
    signInDays,         \* per config id: the days a sign-in was made for it
    repeatedSignIn      \* a sign-in was made for an id already signed in that day

\* startPaymentPolling with its clock, in seconds.
VARIABLES
    now,                \* wall clock since the goroutine was started
    startTime,          \* startTime := time.Now(), -1 before it
    sched,              \* position and locals of the timed poller
    backToBack          \* two QueryOrder calls were made with no sleep between

\* One pass of the poller's loop with the gateway's answer kept.
VARIABLES
    tick                \* the answer to the pass's QueryOrder and what came of it

\* Order creation: validation, order id, the row and the poller.
VARIABLES
    second,             \* time.Now() to the second
    cr,                 \* per CreateDonation request: position, inputs, outcome
    donations,          \* rows of the donations table, by the call that made them
    tasks               \* startPaymentPolling goroutines started

VARIABLES
    rq              \* per request: the handler's progress and its HTTP answer

\* Heartbeats of the WebSocket connections, in whole seconds.
VARIABLES
    hb,             \* per connection: in the pool or not, seconds since LastHeart
    untilCheck,     \* seconds until the ticker of startHeartbeatChecker fires
    checking        \* connections checkHeartbeats has still to visit in this run

\* Calls of Conn.WriteMessage that have begun and not yet returned.
VARIABLES
    writing         \* the writers inside WriteMessage, each with its connection

reconcileVars == <<build, order, BroadcastedOrders, pollPc, currentDonation,
                   wh, broadcasts, enrichments, firstTerminal>>
wsVars == <<Clients, writes, lastBroadcast, sent>>

cfgVars == <<config, lastSignInDate, configCache, dbConfig, co, today,
             signInDays, repeatedSignIn>>

schedVars == <<now, startTime, sched, backToBack>>
tickVars == <<tick>>
createVars == <<second, cr, donations, tasks>>
answerVars == <<rq>>
heartVars == <<hb, untilCheck, checking>>
writeVars == <<writing>>

vars == <<reconcileVars, wsVars, cfgVars, schedVars, tickVars, createVars,
          answerVars, heartVars, writeVars>>

\* Connection ids are never reused (utils.GenerateConnID): a connection is
\* "fresh" until its upgrade, then "open", then "closed".
NoClient == [state |-> "fresh", Payment |-> "", Categories |-> ""]
NoBroadcast == [payment |-> "", categories |-> "", targets |-> {}]

WsInit ==
    /\ Clients = [c \in ConnIDs |-> NoClient]
    /\ writes = {}
    /\ lastBroadcast = NoBroadcast
    /\ sent = 0

\* The tenants' payment_configs ids; a ShouqianbaConfig is reduced to the
\* terminal it names, the terminal key (terminal and generation) and the
\* store name (by the id of its row).
ConfigIDs == {"1", "2"}

ShouqianbaConfig(id, generation) ==
    [TerminalSN |-> id, TerminalKey |-> <<id, generation>>, StoreName |-> id]

\* The configuration main.go builds PaymentService with.
DefaultConfig == ShouqianbaConfig("default", 0)
NoConfig == [TerminalSN |-> "", TerminalKey |-> <<"", 0>>, StoreName |-> ""]

IdleCall == [pc |-> "idle", paymentConfigID |-> "", currentConfig |-> NoConfig,
             originalConfig |-> NoConfig, currentDate |-> 0,
             request |-> NoConfig, sign |-> <<"", 0>>]

CfgInit ==
    /\ config = DefaultConfig
    /\ lastSignInDate = 0
    /\ configCache = [id \in ConfigIDs |-> NoConfig]
    /\ dbConfig = [id \in ConfigIDs |-> <<id, 0>>]
    /\ co = [i \in Callers |-> IdleCall]
    /\ today = 1
    /\ signInDays = [id \in ConfigIDs |-> [made |-> {}, ok |-> {}]]
    /\ repeatedSignIn = FALSE

\* lastEvent: "none", "query" or "sleep", the poller's latest call of either.
SchedInit ==
    /\ now = 0
    /\ startTime = -1
    /\ sched = [pc |-> "wait", elapsedTime |-> 0, sleepDuration |-> 0,
                isFinalQuery |-> FALSE, resolved |-> FALSE, lastEvent |-> "none"]
    /\ backToBack = FALSE

\* No pass under observation.
NoTick == [phase |-> "none", order_status |-> "", before |-> "",
           updated |-> FALSE, status |-> ""]

TickInit == tick = NoTick

\* An amount is a float64: not-a-number, or a value counted in ten-thousandths
\* of the major unit (0.01 is 100).
Amount(isNaN, units) == [isNaN |-> isNaN, units |-> units]

IdleRequest == [pc |-> "idle", entry |-> "", amount |-> Amount(FALSE, 0),
                orderID |-> <<0, 0>>, totalAmount |-> 0, ret |-> "",
                persisted |-> 0, spawned |-> 0]

CreateInit ==
    /\ second = 1
    /\ cr = [j \in Callers |-> IdleRequest]
    /\ donations = {}
    /\ tasks = {}

\* What the actions of one part leave alone: the variables of the others.
IdleAnswer == [pc |-> "idle", route |-> "", amount |-> Amount(FALSE, 0),
               payment |-> "", err |-> "", status |-> 0]

AnswerInit == rq = [j \in Callers |-> IdleAnswer]

HeartbeatInterval == 10
HeartbeatTimeout == 30

\* Every age over the timeout is the same to checkHeartbeats.
Stale == HeartbeatTimeout + 1

NoHeart == [state |-> "none", age |-> 0, by |-> ""]

HeartInit ==
    /\ hb = [c \in ConnIDs |-> NoHeart]
    /\ untilCheck = HeartbeatInterval
    /\ checking = {}

WriteInit == writing = {}

notReconcile == <<wsVars, cfgVars, schedVars, tickVars, createVars, answerVars,
    heartVars, writeVars>>
notWs == <<reconcileVars, cfgVars, schedVars, tickVars, createVars, answerVars,
    heartVars, writeVars>>
notCfg == <<reconcileVars, wsVars, schedVars, tickVars, createVars, answerVars,
    heartVars, writeVars>>
notSched == <<reconcileVars, wsVars, cfgVars, tickVars, createVars, answerVars,
    heartVars, writeVars>>
notTick == <<wsVars, cfgVars, schedVars, createVars, answerVars,
    heartVars, writeVars>>
notCreate == <<reconcileVars, wsVars, cfgVars, schedVars, tickVars, answerVars,
    heartVars, writeVars>>
notAnswer == <<reconcileVars, wsVars, cfgVars, schedVars, tickVars, createVars,
    heartVars, writeVars>>
notHeart == <<reconcileVars, wsVars, cfgVars, schedVars, tickVars, createVars,
    answerVars, writeVars>>
notWrite == <<reconcileVars, cfgVars, schedVars, tickVars, createVars,
    answerVars, heartVars>>

Terminal == {"completed", "failed"}

----------------------------------------------------------------------------
(* Gateway answers to QueryOrder, as far as the poller looks into them.    *)

QueryResult(err, bizOk, resultCode, errorCode, dataOk, statusOk, orderStatus) ==
    [err |-> err, bizOk |-> bizOk, result_code |-> resultCode,
     error_code |-> errorCode, dataOk |-> dataOk, statusOk |-> statusOk,
     order_status |-> orderStatus]

QueryOutcomes ==
    { QueryResult(TRUE,  FALSE, "", "", FALSE, FALSE, ""),
      QueryResult(FALSE, FALSE, "", "", FALSE, FALSE, ""),
      QueryResult(FALSE, TRUE, "FAIL", "UPAY_ORDER_NOT_EXISTS", FALSE, FALSE, ""),
      QueryResult(FALSE, TRUE, "FAIL", "INVALID_PARAMS", FALSE, FALSE, ""),
      QueryResult(FALSE, TRUE, "SUCCESS", "", TRUE, FALSE, "") }
    \cup
    { QueryResult(FALSE, TRUE, "SUCCESS", "", TRUE, TRUE, s) :
        s \in {"PAID", "PAY_CANCELED", "CREATED", "PAY_ERROR", "REFUNDED"} }

----------------------------------------------------------------------------
(* Callback bodies.  auth is the Authorization header, sign the embedded   *)
(* sign field: "" absent, "good" verifies, "bad" does not.  nested names   *)
(* the channel object ("wechat"/"alipay") carried in the body, if any.     *)

Payload(auth, sign, status, tradeStatus, payerUid, reflectPayment, nested) ==
    [auth |-> auth, sign |-> sign, status |-> status,
     trade_status |-> tradeStatus, payer_uid |-> payerUid,
     reflectPayment |-> reflectPayment, nested |-> nested]

Payloads ==
    { Payload("good", "",     "SUCCESS", "", "u1", "", ""),
      Payload("",     "good", "SUCCESS", "", "u1", "", "wechat"),
      Payload("good", "",     "FAIL",    "", "",   "", ""),
      Payload("bad",  "",     "SUCCESS", "", "u1", "", ""),
      Payload("",     "",     "FAIL",    "", "",   "", ""),
      Payload("good", "",     "",        "TRADE_SUCCESS", "u1", "", "alipay") }

NoPayload == Payload("", "", "", "", "", "", "")
NoDonation == [Status |-> "", Payment |-> "", OpenID |-> ""]

IdleWebhook ==
    [pc |-> "idle", data |-> NoPayload, donation |-> NoDonation,
     ack |-> "none", wrote |-> FALSE]

\* The signature the handlers check: the header when present, else the sign field.
SignatureOk(p) == IF p.auth # "" THEN p.auth = "good" ELSE p.sign = "good"

----------------------------------------------------------------------------
(* The donations row and the writes made to it.                            *)

\* Ghost: remember the first write that takes the row from a non-terminal
\* to a terminal status.
NoteTerminal(old, new) ==
    IF firstTerminal = "" /\ old \notin Terminal /\ new \in Terminal
    THEN new
    ELSE firstTerminal

\* updateOrderStatus: read the row, UPDATE status when it differs.  The read
\* and the UPDATE leave the row as one unconditional assignment does.
updateOrderStatus(row, status) ==
    IF row.Status # status THEN [row EXCEPT !.Status = status] ELSE row

\* A switch that takes PAY_ERROR for an unknown status.
MapOrderStatus_payErrorUnknown(orderStatus) ==
    CASE orderStatus = "PAID" -> "completed"
      [] orderStatus = "PAY_CANCELED" -> "failed"
      [] orderStatus = "CREATED" -> "pending"
      [] OTHER -> "unknown"

\* The switch of updateOrderStatusFromQuery on order_status.
MapOrderStatus(orderStatus) ==
    CASE orderStatus = "PAID" -> "completed"
      [] orderStatus = "PAY_CANCELED" -> "failed"
      [] orderStatus \in {"CREATED", "PAY_ERROR"} -> "pending"
      [] OTHER -> "unknown"

\* updateOrderStatusFromQuery: what it returns, (updated, status).
updateOrderStatusFromQuery(result) ==
    IF ~result.bizOk THEN [updated |-> FALSE, status |-> ""]
    ELSE IF result.result_code = "FAIL"
         THEN IF result.error_code = "UPAY_ORDER_NOT_EXISTS"
              THEN [updated |-> TRUE, status |-> "failed"]
              ELSE [updated |-> FALSE, status |-> ""]
    ELSE IF ~result.dataOk \/ ~result.statusOk
         THEN [updated |-> FALSE, status |-> ""]
    ELSE LET status == MapOrderStatus(result.order_status) IN
         IF status # "pending" \/ result.order_status \in {"PAID", "PAY_CANCELED"}
         THEN [updated |-> TRUE, status |-> status]
         ELSE [updated |-> FALSE, status |-> ""]

\* A final mapping that, like the loop's, leaves CREATED and PAY_ERROR alone.
finalStatusAtExpiry_keepsPending(result, current) ==
    IF result.err
    THEN IF current \notin Terminal THEN "unknown" ELSE ""
    ELSE IF result.bizOk /\ result.dataOk /\ result.statusOk
         THEN CASE result.order_status = "PAID" -> "completed"
                [] result.order_status = "PAY_CANCELED" -> "failed"
                [] result.order_status \in {"CREATED", "PAY_ERROR"} -> ""
                [] OTHER -> IF current \notin Terminal THEN "unknown" ELSE ""
         ELSE IF current \notin Terminal THEN "unknown" ELSE ""

\* The status the code after the loop settles on for the final query, given
\* the status it read before that query; "" when it writes nothing.
finalStatusAtExpiry(result, current) ==
    IF result.err
    THEN IF current \notin Terminal THEN "unknown" ELSE ""
    ELSE IF result.bizOk /\ result.dataOk /\ result.statusOk
         THEN CASE result.order_status = "PAID" -> "completed"
                [] result.order_status = "PAY_CANCELED" -> "failed"
                [] OTHER -> IF current \notin Terminal THEN "unknown" ELSE ""
         ELSE IF current \notin Terminal THEN "unknown" ELSE ""

----------------------------------------------------------------------------
(* startPaymentPolling.  The loop body looks at elapsedTime only to end    *)
(* the loop: over 6 minutes it breaks before querying, from 5 minutes on   *)
(* it breaks after the query.  The clock read at the top of a pass is an   *)
(* input of that pass.                                                     *)

ElapsedRegions == {"under5m", "5mTo6m", "over6m"}

ReconcileInit ==
    /\ build \in {"gin", "fasthttp"}
    /\ order \in { [Status |-> "pending", Payment |-> pay,
                    OpenID |-> "anonymous", PayerUID |-> ""] :
                   pay \in {"wechat", "alipay"} }
    /\ BroadcastedOrders = FALSE
    /\ pollPc = "wait"
    /\ currentDonation = ""
    /\ wh = [w \in Webhooks |-> IdleWebhook]
    /\ broadcasts = 0
    /\ enrichments = 0
    /\ firstTerminal = ""

Init ==
    /\ ReconcileInit
    /\ WsInit
    /\ CfgInit
    /\ SchedInit
    /\ TickInit
    /\ CreateInit
    /\ AnswerInit
    /\ HeartInit
    /\ WriteInit

\* time.Sleep(5s); startTime := time.Now()
PollStart ==
    /\ pollPc = "wait"
    /\ pollPc' = "loop"
    /\ UNCHANGED notReconcile
    /\ UNCHANGED <<build, order, BroadcastedOrders, currentDonation,
                   wh, broadcasts, enrichments, firstTerminal>>

\* A pass of the loop body that finds elapsedTime > maxPollingTime.
PollBudgetExceeded ==
    /\ pollPc = "loop"
    /\ pollPc' = "expiry"
    /\ UNCHANGED notReconcile
    /\ UNCHANGED <<build, order, BroadcastedOrders, currentDonation, wh,
                   broadcasts, enrichments, firstTerminal>>

\* A pass of the loop body that queries, through the sleep that ends it.
PollTick ==
    /\ pollPc = "loop"
    /\ \E elapsedTime \in ElapsedRegions \ {"over6m"}, result \in QueryOutcomes :
         IF result.err
         THEN \* goto sleep
              UNCHANGED <<order, BroadcastedOrders, pollPc, firstTerminal>>
         ELSE LET r == updateOrderStatusFromQuery(result)
                  row == IF r.updated THEN updateOrderStatus(order, r.status)
                         ELSE order
              IN /\ order' = row
                 /\ firstTerminal' = NoteTerminal(order.Status, row.Status)
                 /\ BroadcastedOrders' =
                      (BroadcastedOrders \/
                       (r.updated /\ r.status = "completed" /\ row.Payment = "wechat"))
                 /\ pollPc' = IF r.updated /\ r.status \in Terminal THEN "done"
                              ELSE IF elapsedTime = "5mTo6m" THEN "expiry"
                              ELSE "loop"
    /\ UNCHANGED notReconcile
    /\ UNCHANGED <<build, currentDonation, wh, broadcasts, enrichments>>

\* After the loop: re-read the row; a terminal status ends the goroutine.
PollExpiry ==
    /\ pollPc = "expiry"
    /\ IF order.Status \in Terminal
       THEN pollPc' = "done" /\ UNCHANGED currentDonation
       ELSE pollPc' = "final" /\ currentDonation' = order.Status
    /\ UNCHANGED notReconcile
    /\ UNCHANGED <<build, order, BroadcastedOrders, wh, broadcasts,
                   enrichments, firstTerminal>>

\* The last QueryOrder and the write that follows it; the goroutine ends and
\* its locals with it.
PollFinal ==
    /\ pollPc = "final"
    /\ \E result \in QueryOutcomes :
         LET status == finalStatusAtExpiry(result, currentDonation)
             row == IF status # "" THEN updateOrderStatus(order, status) ELSE order
         IN /\ order' = row
            /\ firstTerminal' = NoteTerminal(order.Status, row.Status)
    /\ pollPc' = "done"
    /\ currentDonation' = ""
    /\ UNCHANGED notReconcile
    /\ UNCHANGED <<build, BroadcastedOrders, wh, broadcasts, enrichments>>

----------------------------------------------------------------------------
(* PaymentService.HandleCallbackWithPublicKey / HandleCallback.            *)

\* VerifyCallbackSignature over the raw body and the Authorization header.
VerifyCallbackSignature(p) == p.auth = "good"
\* HandleCallback: originalSign == GenerateSign(callbackData, "terminal").
VerifyTerminalSign(p) == p.sign = "good"

\* A handler without the duplicate check.
isDuplicateCallback_never(donation) == FALSE

\* "处理重复回调": the row read by the handler is already completed.
isDuplicateCallback(donation) == donation.Status = "completed"

\* transactionStatus is data["status"] alone; anything but "SUCCESS" fails the order.
finalStatus(p) == IF p.status = "SUCCESS" THEN "completed" ELSE "failed"

paymentType(p, donation) ==
    IF p.reflectPayment # "" THEN p.reflectPayment ELSE donation.Payment

\* DB.Model(&donation).Updates(updateData), for the handler picked by the route.
CallbackUpdates(row, p, donation) ==
    LET openid == p.payer_uid
        setOpenID == IF p.auth # ""
                     THEN openid # "" /\ donation.OpenID = ""
                     ELSE donation.OpenID = ""
    IN [row EXCEPT !.Status = finalStatus(p),
                   !.Payment = paymentType(p, donation),
                   !.OpenID = IF setOpenID THEN openid ELSE @,
                   !.PayerUID = IF openid # "" THEN openid ELSE @]

----------------------------------------------------------------------------
(* APIRoutes.HandleCallback of the two routes packages.                    *)

\* fasthttp: status, falling back to the trade_status alias.
CallbackStatus(p) == IF p.status # "" THEN p.status ELSE p.trade_status
successStatuses == {"success", "SUCCESS", "TRADE_SUCCESS", "PAY_SUCCESS"}

\* What the route answers when the service handler returns an error.
ErrorAck == IF build = "gin" THEN "500" ELSE "403"
\* What the route answers when neither header nor sign field is there.
MissingSignAck == IF build = "gin" THEN "400" ELSE "403"

\* The row a handler read is dropped once the handler no longer looks at it; only
\* the note that it read a completed row is kept.
Forget(donation) == IF donation.Status = "completed" THEN donation ELSE NoDonation

\* The request is over.
Finish(w, ack) ==
    [wh EXCEPT ![w].pc = "done", ![w].ack = ack, ![w].donation = Forget(@)]

\* A request arrives: the route's checks, then the service handler up to and
\* including its read of the row.  Requests are numbered as they arrive.
WhReceive(w) ==
    /\ wh[w].pc = "idle"
    /\ w > 1 => wh[w - 1].pc # "idle"
    /\ \E p \in Payloads :
         LET in == [wh EXCEPT ![w].data = p] IN
         IF build = "fasthttp" /\ CallbackStatus(p) \notin successStatuses
         THEN wh' = [in EXCEPT ![w].pc = "done", ![w].ack = "success"]
         ELSE IF p.auth = "" /\ p.sign = ""
         THEN wh' = [in EXCEPT ![w].pc = "done", ![w].ack = MissingSignAck]
         ELSE IF ~(IF p.auth # "" THEN VerifyCallbackSignature(p)
                                  ELSE VerifyTerminalSign(p))
         THEN wh' = [in EXCEPT ![w].pc = "done", ![w].ack = ErrorAck]
         ELSE LET donation == [Status |-> order.Status, Payment |-> order.Payment,
                               OpenID |-> order.OpenID]
              IN IF isDuplicateCallback(donation)
                 THEN IF build = "gin"
                      THEN wh' = [in EXCEPT ![w].pc = "tail", ![w].donation = donation]
                      ELSE wh' = [in EXCEPT ![w].pc = "async", ![w].donation = donation,
                                            ![w].ack = "success"]
                 ELSE wh' = [in EXCEPT ![w].pc = "update", ![w].donation = donation]
    /\ UNCHANGED notReconcile
    /\ UNCHANGED <<build, order, BroadcastedOrders, pollPc,
                   currentDonation, broadcasts, enrichments, firstTerminal>>

\* The service handler from the status mapping to Updates: start the user-info
\* lookup for a success, then write the row; a failed write is returned as err.
\* The row read earlier is not looked at again after Updates.
WhUpdate(w) ==
    /\ wh[w].pc = "update"
    /\ enrichments' = IF finalStatus(wh[w].data) = "completed"
                      THEN enrichments + 1 ELSE enrichments
    /\ \E dbOk \in BOOLEAN :
         IF dbOk
         THEN LET row == CallbackUpdates(order, wh[w].data, wh[w].donation) IN
              /\ order' = row
              /\ firstTerminal' = NoteTerminal(order.Status, row.Status)
              /\ wh' = [wh EXCEPT ![w].pc = "clear", ![w].wrote = TRUE,
                                   ![w].donation = Forget(@)]
         ELSE /\ wh' = Finish(w, ErrorAck)
              /\ UNCHANGED <<order, firstTerminal>>
    /\ UNCHANGED notReconcile
    /\ UNCHANGED <<build, BroadcastedOrders, pollPc, currentDonation,
                   broadcasts>>

\* ps.updateOrderStatus(orderID, finalStatus) closing the service handler; the
\* fasthttp route then answers at once and goes on in a goroutine.
WhClearCache(w) ==
    /\ wh[w].pc = "clear"
    /\ LET row == updateOrderStatus(order, finalStatus(wh[w].data)) IN
       /\ order' = row
       /\ firstTerminal' = NoteTerminal(order.Status, row.Status)
    /\ wh' = IF build = "gin"
             THEN [wh EXCEPT ![w].pc = "tail"]
             ELSE [wh EXCEPT ![w].pc = "async", ![w].ack = "success"]
    /\ UNCHANGED notReconcile
    /\ UNCHANGED <<build, BroadcastedOrders, pollPc, currentDonation,
                   broadcasts, enrichments>>

\* gin: sleep 1s, GetDonationByOrderID, BroadcastNewDonation when the row is
\* completed, then answer "success".
GinTail(w) ==
    /\ build = "gin"
    /\ wh[w].pc = "tail"
    /\ broadcasts' = IF order.Status = "completed" THEN broadcasts + 1 ELSE broadcasts
    /\ wh' = Finish(w, "success")
    /\ UNCHANGED notReconcile
    /\ UNCHANGED <<build, order, BroadcastedOrders, pollPc,
                   currentDonation, enrichments, firstTerminal>>

\* fasthttp: the goroutine after the answer; it broadcasts unless the body
\* carries a wechat object.
FastAsync(w) ==
    /\ build = "fasthttp"
    /\ wh[w].pc = "async"
    /\ broadcasts' = IF wh[w].data.nested # "wechat" THEN broadcasts + 1 ELSE broadcasts
    /\ wh' = Finish(w, wh[w].ack)
    /\ UNCHANGED notReconcile
    /\ UNCHANGED <<build, order, BroadcastedOrders, pollPc,
                   currentDonation, enrichments, firstTerminal>>

WebhookReceive == \E w \in Webhooks : WhReceive(w)
WebhookUpdate == \E w \in Webhooks : WhUpdate(w)
WebhookClearCache == \E w \in Webhooks : WhClearCache(w)
WebhookGinTail == \E w \in Webhooks : GinTail(w)
WebhookFastAsync == \E w \in Webhooks : FastAsync(w)

Next ==
    \/ PollStart
    \/ PollBudgetExceeded
    \/ PollTick
    \/ PollExpiry
    \/ PollFinal
    \/ WebhookReceive
    \/ WebhookUpdate
    \/ WebhookClearCache
    \/ WebhookGinTail
    \/ WebhookFastAsync

Spec == Init /\ [][Next]_vars

----------------------------------------------------------------------------
(* WebSocketManager of the fasthttp build (unnamed/part_005).              *)

\* The payment (project id) and categories values of the query string and of
\* an order; "" is an absent parameter.
PaymentIDs == {"", "1", "2"}
CategoryIDs == {"", "5"}

\* The pool as Clients.Range sees it.
Pool == {c \in ConnIDs : Clients[c].state = "open"}

\* BroadcastToSpecific's test on one connection.
paymentMatch(clientConn, payment) ==
    payment = "" \/ clientConn.Payment = payment

categoriesMatch(clientConn, categories) ==
    categories = "" \/ clientConn.Categories = categories

\* Upgrade of /ws/pay-notify: the connection is stored with its parameters.
HandleWebSocket(c, payment, categories) ==
    /\ Clients[c].state = "fresh"
    /\ \A d \in ConnIDs : d < c => Clients[d].state # "fresh"
    /\ Clients' = [Clients EXCEPT ![c] = [state |-> "open", Payment |-> payment,
                                          Categories |-> categories]]
    /\ UNCHANGED <<writes, lastBroadcast, sent>>
    /\ UNCHANGED notWs

\* ReadMessage fails (the peer went away): the deferred cleanup runs.
handleClientConn(c) ==
    /\ Clients[c].state = "open"
    /\ Clients' = [Clients EXCEPT ![c].state = "closed"]
    /\ UNCHANGED <<writes, lastBroadcast, sent>>
    /\ UNCHANGED notWs

\* The Range of BroadcastToSpecific: one goroutine per matching connection.
BroadcastToSpecific(payment, categories) ==
    /\ sent < MaxBroadcasts
    /\ payment # "" \/ categories # ""
    /\ LET targets == {c \in Pool : /\ paymentMatch(Clients[c], payment)
                                     /\ categoriesMatch(Clients[c], categories)}
       IN /\ lastBroadcast' = [payment |-> payment, categories |-> categories,
                               targets |-> targets]
          /\ writes' = writes \cup {[conn |-> c, retryCount |-> 0,
                                      broadcast |-> sent + 1,
                                      kind |-> "specific"] : c \in targets}
    /\ sent' = sent + 1
    /\ UNCHANGED Clients
    /\ UNCHANGED notWs

\* The retry bound of BroadcastToSpecific.
maxRetries == 2

\* The same test with one more try allowed.
RetriesExhausted_oneMore(retryCount) == retryCount + 1 >= maxRetries + 1

\* After a failed write, retryCount++ ends the loop "retryCount < maxRetries".
RetriesExhausted(retryCount) == retryCount + 1 >= maxRetries

\* One WriteMessage of a broadcast goroutine: success ends it, the second
\* failure closes the connection and deletes it from the pool.
WriteMessage(w, ok) ==
    /\ w \in writes
    /\ w.kind = "specific"
    /\ ok => Clients[w.conn].state = "open"
    /\ IF ok
       THEN writes' = writes \ {w} /\ UNCHANGED Clients
       ELSE IF RetriesExhausted(w.retryCount)
            THEN /\ writes' = writes \ {w}
                 /\ Clients' = [Clients EXCEPT ![w.conn].state = "closed"]
            ELSE /\ writes' = (writes \ {w}) \cup
                                {[w EXCEPT !.retryCount = w.retryCount + 1]}
                 /\ UNCHANGED Clients
    /\ UNCHANGED <<lastBroadcast, sent>>
    /\ UNCHANGED notWs

Upgrade ==
    \E c \in ConnIDs, payment \in PaymentIDs, categories \in CategoryIDs :
        HandleWebSocket(c, payment, categories)

Disconnect == \E c \in ConnIDs : handleClientConn(c)

TargetedBroadcast ==
    \E payment \in PaymentIDs, categories \in CategoryIDs :
        BroadcastToSpecific(payment, categories)

BroadcastWrite == \E w \in writes, ok \in BOOLEAN : WriteMessage(w, ok)

WsNext ==
    \/ Upgrade
    \/ Disconnect
    \/ TargetedBroadcast
    \/ BroadcastWrite

\* Only the WebSocketManager runs (it exists in the fasthttp build); the
\* order of the first part stays as created.
InitWs ==
    /\ ReconcileInit
    /\ build = "fasthttp"
    /\ order.Payment = "alipay"
    /\ WsInit
    /\ CfgInit
    /\ SchedInit
    /\ TickInit
    /\ CreateInit
    /\ AnswerInit
    /\ HeartInit
    /\ WriteInit

SpecWs == InitWs /\ [][WsNext]_vars

\* The Range of Broadcast: one goroutine per connection of the pool.
Broadcast ==
    /\ sent < MaxBroadcasts
    /\ lastBroadcast' = [payment |-> "", categories |-> "", targets |-> Pool]
    /\ writes' = writes \cup {[conn |-> c, retryCount |-> 0,
                                broadcast |-> sent + 1,
                                kind |-> "all"] : c \in Pool}
    /\ sent' = sent + 1
    /\ UNCHANGED Clients
    /\ UNCHANGED notWs

\* The WriteMessage of a goroutine of Broadcast: there is no retry, a failure
\* closes the connection and deletes it from the pool.
BroadcastWriteMessage(w, ok) ==
    /\ w \in writes
    /\ w.kind = "all"
    /\ ok => Clients[w.conn].state = "open"
    /\ writes' = writes \ {w}
    /\ IF ok THEN UNCHANGED Clients
       ELSE Clients' = [Clients EXCEPT ![w.conn].state = "closed"]
    /\ UNCHANGED <<lastBroadcast, sent>>
    /\ UNCHANGED notWs

GlobalWrite == \E w \in writes, ok \in BOOLEAN : BroadcastWriteMessage(w, ok)

\* Both kinds of broadcast, as the callback handler calls them.
SendNext ==
    \/ Upgrade
    \/ Disconnect
    \/ TargetedBroadcast
    \/ BroadcastWrite
    \/ Broadcast
    \/ GlobalWrite

SpecSend == InitWs /\ [][SendNext]_vars

----------------------------------------------------------------------------
(* Tenant configuration in CreateOrder and QueryOrder (services/payment.go). *)
(* PaymentService.config, lastSignInDate and configCache are plain fields    *)
(* read and written by every request goroutine without a lock; each action   *)
(* below is one stretch of a call between two such accesses.                 *)

\* The payment_configs row of an id, converted to a ShouqianbaConfig.
FromDatabase(id) ==
    [TerminalSN |-> id, TerminalKey |-> dbConfig[id], StoreName |-> id]

\* CreateOrder: load the configuration of paymentConfigID, from the cache or
\* from the database (and cache it).
ResolveConfig(i, paymentConfigID) ==
    /\ co[i].pc = "idle"
    /\ i > 1 => co[i - 1].pc # "idle"
    /\ LET cachedConfig == configCache[paymentConfigID]
           exists == cachedConfig # NoConfig /\ cachedConfig.StoreName # ""
           currentConfig == IF exists THEN cachedConfig
                            ELSE FromDatabase(paymentConfigID)
       IN /\ configCache' = [configCache EXCEPT ![paymentConfigID] = currentConfig]
          /\ co' = [co EXCEPT ![i] = [@ EXCEPT !.pc = "resolved",
                                               !.paymentConfigID = paymentConfigID,
                                               !.currentConfig = currentConfig]]
    /\ UNCHANGED <<config, lastSignInDate, dbConfig, today, signInDays,
                   repeatedSignIn>>
    /\ UNCHANGED notCfg

\* CreateOrder: the date test; when it differs the shared config is replaced
\* by the call's own for the sign-in.
CheckSignIn(i) ==
    /\ co[i].pc = "resolved"
    /\ LET id == co[i].paymentConfigID IN
       IF lastSignInDate # today
       THEN /\ co' = [co EXCEPT ![i] = [@ EXCEPT !.pc = "signin",
                                                 !.currentDate = today,
                                                 !.originalConfig = config]]
            /\ config' = co[i].currentConfig
            /\ signInDays' = [signInDays EXCEPT ![id].made = @ \cup {today}]
            /\ repeatedSignIn' = (repeatedSignIn \/ today \in signInDays[id].ok)
       ELSE /\ co' = [co EXCEPT ![i] = [@ EXCEPT !.pc = "sign",
                                                 !.currentDate = today]]
            /\ UNCHANGED <<config, signInDays, repeatedSignIn>>
    /\ UNCHANGED <<lastSignInDate, configCache, dbConfig, today>>
    /\ UNCHANGED notCfg

\* SignIn: the check-in request is built and signed from the shared config.
SignInRequest(i) ==
    /\ co[i].pc = "signin"
    /\ co' = [co EXCEPT ![i] = [@ EXCEPT !.pc = "checkin", !.request = config]]
    /\ UNCHANGED <<config, lastSignInDate, configCache, dbConfig, today,
                   signInDays, repeatedSignIn>>
    /\ UNCHANGED notCfg

\* The key the gateway hands out at a check-in of the request's terminal.
RotatedKey(request) == <<request.TerminalSN, request.TerminalKey[2] + 1>>

\* SignIn returns, and CreateOrder stores the date and the cache entry after a
\* success and puts the saved config back.  outcome: "error" (SignIn failed),
\* "same" (success without new terminal data), "rotated" (success with a new
\* terminal_sn / terminal_key in the answer).
SignInReturn(i, outcome) ==
    /\ co[i].pc = "checkin"
    /\ outcome = "rotated" => co[i].request.TerminalKey[2] < MaxRotations
    /\ LET id == co[i].paymentConfigID
           signedIn == IF outcome = "rotated"
                       THEN [config EXCEPT !.TerminalSN = co[i].request.TerminalSN,
                                           !.TerminalKey = RotatedKey(co[i].request)]
                       ELSE config
       IN IF outcome = "error"
          THEN UNCHANGED <<lastSignInDate, configCache, dbConfig, signInDays>>
          ELSE /\ lastSignInDate' = co[i].currentDate
               /\ configCache' = [configCache EXCEPT ![id] = signedIn]
               /\ dbConfig' = IF signedIn.TerminalSN \in ConfigIDs
                              THEN [dbConfig EXCEPT ![signedIn.TerminalSN] =
                                                        signedIn.TerminalKey]
                              ELSE dbConfig
               /\ signInDays' = [signInDays EXCEPT ![id].ok =
                                                       @ \cup {co[i].currentDate}]
    /\ config' = co[i].originalConfig
    /\ co' = [co EXCEPT ![i] = [@ EXCEPT !.pc = "sign", !.request = NoConfig,
                                         !.originalConfig = NoConfig]]
    /\ UNCHANGED <<today, repeatedSignIn>>
    /\ UNCHANGED notCfg

\* CreateOrder: the shared config is replaced by the call's own for signing.
PrepareSign(i) ==
    /\ co[i].pc = "sign"
    /\ co' = [co EXCEPT ![i] = [@ EXCEPT !.pc = "gensign",
                                         !.originalConfig = config]]
    /\ config' = co[i].currentConfig
    /\ UNCHANGED <<lastSignInDate, configCache, dbConfig, today, signInDays,
                   repeatedSignIn>>
    /\ UNCHANGED notCfg

\* GenerateSign(params, "terminal") takes its key from the shared config;
\* CreateOrder then puts the saved config back.
GenerateSign(i) ==
    /\ co[i].pc = "gensign"
    /\ co' = [co EXCEPT ![i] = [@ EXCEPT !.pc = "done",
                                         !.sign = config.TerminalKey,
                                         !.originalConfig = NoConfig]]
    /\ config' = co[i].originalConfig
    /\ UNCHANGED <<lastSignInDate, configCache, dbConfig, today, signInDays,
                   repeatedSignIn>>
    /\ UNCHANGED notCfg

\* QueryOrder of a poller: a cache miss loads the row and caches it.
QueryOrderConfig(id) ==
    /\ configCache[id] = NoConfig
    /\ configCache' = [configCache EXCEPT ![id] = FromDatabase(id)]
    /\ UNCHANGED <<config, lastSignInDate, dbConfig, co, today, signInDays,
                   repeatedSignIn>>
    /\ UNCHANGED notCfg

\* Midnight.
NextDay ==
    /\ today < MaxDays
    /\ today' = today + 1
    /\ UNCHANGED <<config, lastSignInDate, configCache, dbConfig, co,
                   signInDays, repeatedSignIn>>
    /\ UNCHANGED notCfg

CreateOrderResolve ==
    \E i \in Callers, paymentConfigID \in ConfigIDs : ResolveConfig(i, paymentConfigID)

CreateOrderCheckSignIn == \E i \in Callers : CheckSignIn(i)

CreateOrderSignInRequest == \E i \in Callers : SignInRequest(i)

CreateOrderSignInReturn ==
    \E i \in Callers, outcome \in {"error", "same", "rotated"} : SignInReturn(i, outcome)

CreateOrderPrepareSign == \E i \in Callers : PrepareSign(i)

CreateOrderGenerateSign == \E i \in Callers : GenerateSign(i)

PollerQueryOrder == \E id \in ConfigIDs : QueryOrderConfig(id)

CfgNext ==
    \/ CreateOrderResolve
    \/ CreateOrderCheckSignIn
    \/ CreateOrderSignInRequest
    \/ CreateOrderSignInReturn
    \/ CreateOrderPrepareSign
    \/ CreateOrderGenerateSign
    \/ PollerQueryOrder
    \/ NextDay

\* Only CreateOrder's configuration handling and the pollers' QueryOrder run.
InitCfg ==
    /\ ReconcileInit
    /\ build = "gin"
    /\ order.Payment = "wechat"
    /\ WsInit
    /\ CfgInit
    /\ SchedInit
    /\ TickInit
    /\ CreateInit
    /\ AnswerInit
    /\ HeartInit
    /\ WriteInit

SpecCfg == InitCfg /\ [][CfgNext]_vars

\* CreateOrder: the amount test or the payment test, which come after the
\* sign-in block, fails and the call returns the error.
RejectOrder(i) ==
    /\ co[i].pc = "sign"
    /\ co' = [co EXCEPT ![i] = [@ EXCEPT !.pc = "rejected"]]
    /\ UNCHANGED <<config, lastSignInDate, configCache, dbConfig, today,
                   signInDays, repeatedSignIn>>
    /\ UNCHANGED notCfg

CreateOrderReject == \E i \in Callers : RejectOrder(i)

\* Calls of CreateOrder alone, some of them with arguments it refuses.
RejectNext ==
    \/ CreateOrderResolve
    \/ CreateOrderCheckSignIn
    \/ CreateOrderSignInRequest
    \/ CreateOrderSignInReturn
    \/ CreateOrderPrepareSign
    \/ CreateOrderGenerateSign
    \/ CreateOrderReject
    \/ NextDay

SpecReject == InitCfg /\ [][RejectNext]_vars

----------------------------------------------------------------------------
(* startPaymentPolling with wall-clock time (services/payment.go).  The      *)
(* order's status is left out here: a query either resolves the order       *)
(* (completed / failed written, the goroutine returns), fails, or leaves it *)
(* unresolved.                                                              *)

InitialWait == 5
ShortInterval == 3
LongInterval == 10
OneMinute == 60
FiveMinutes == 300
maxPollingTime == 360

\* sleepDuration with the long interval starting at the full minute.
sleepDuration_fromSixty(elapsedTime) ==
    IF elapsedTime >= OneMinute THEN LongInterval ELSE ShortInterval

\* sleepDuration as computed at the top of each pass.
sleepDuration(elapsedTime) ==
    IF elapsedTime > OneMinute THEN LongInterval ELSE ShortInterval

\* time.Sleep(5 * time.Second); startTime := time.Now()
SchedStart ==
    /\ sched.pc = "wait"
    /\ now' = now + InitialWait
    /\ startTime' = now'
    /\ sched' = [sched EXCEPT !.pc = "top"]
    /\ UNCHANGED backToBack
    /\ UNCHANGED notSched

\* Top of a pass: elapsedTime, sleepDuration and the maxPollingTime test.
SchedTop ==
    /\ sched.pc = "top"
    /\ LET elapsedTime == now - startTime IN
       sched' = [sched EXCEPT !.elapsedTime = elapsedTime,
                              !.sleepDuration = sleepDuration(elapsedTime),
                              !.pc = IF elapsedTime > maxPollingTime
                                     THEN "after" ELSE "query"]
    /\ UNCHANGED <<now, startTime, backToBack>>
    /\ UNCHANGED notSched

\* Where a pass that wrote completed or failed would go on, did it not
\* return.
AfterFinalStatus_sleep == "sleep"

\* Where a pass goes on after it wrote completed or failed: return.
AfterFinalStatus == "returned"

\* QueryOrder in the loop and what follows it up to the sleep.  outcome:
\* "error" (goto sleep), "resolved" (completed or failed written: return),
\* "unresolved" (anything else).
SchedQuery(duration, outcome) ==
    /\ sched.pc = "query"
    /\ now' = now + duration
    /\ backToBack' = (backToBack \/ sched.lastEvent = "query")
    /\ LET isFinalQuery == \/ sched.isFinalQuery
                           \/ sched.elapsedTime >= FiveMinutes
       IN sched' =
            IF outcome = "error"
            THEN [sched EXCEPT !.pc = "sleep", !.lastEvent = "query"]
            ELSE IF outcome = "resolved"
            THEN [sched EXCEPT !.pc = AfterFinalStatus, !.resolved = TRUE,
                               !.lastEvent = "query"]
            ELSE [sched EXCEPT !.pc = IF isFinalQuery THEN "after" ELSE "sleep",
                               !.isFinalQuery = isFinalQuery,
                               !.lastEvent = "query"]
    /\ UNCHANGED startTime
    /\ UNCHANGED notSched

\* time.Sleep(sleepDuration)
SchedSleep ==
    /\ sched.pc = "sleep"
    /\ now' = now + sched.sleepDuration
    /\ sched' = [sched EXCEPT !.pc = "top", !.lastEvent = "sleep"]
    /\ UNCHANGED <<startTime, backToBack>>
    /\ UNCHANGED notSched

\* After the loop: the row is read again; a final status ends the goroutine.
SchedRecheck(final) ==
    /\ sched.pc = "after"
    /\ sched' = IF final THEN [sched EXCEPT !.pc = "returned", !.resolved = TRUE]
                ELSE [sched EXCEPT !.pc = "final"]
    /\ UNCHANGED <<now, startTime, backToBack>>
    /\ UNCHANGED notSched

\* The query after the loop; whatever it answers, the goroutine returns.
SchedFinalQuery(duration, outcome) ==
    /\ sched.pc = "final"
    /\ now' = now + duration
    /\ backToBack' = (backToBack \/ sched.lastEvent = "query")
    /\ sched' = [sched EXCEPT !.pc = "returned", !.lastEvent = "query",
                              !.resolved = (outcome = "resolved")]
    /\ UNCHANGED startTime
    /\ UNCHANGED notSched

QueryResults == {"error", "resolved", "unresolved"}

SchedLoopQuery ==
    \E duration \in QueryDurations, outcome \in QueryResults :
        SchedQuery(duration, outcome)

SchedAfterLoop == \E final \in BOOLEAN : SchedRecheck(final)

SchedLastQuery ==
    \E duration \in QueryDurations, outcome \in QueryResults :
        SchedFinalQuery(duration, outcome)

SchedNext ==
    \/ SchedStart
    \/ SchedTop
    \/ SchedLoopQuery
    \/ SchedSleep
    \/ SchedAfterLoop
    \/ SchedLastQuery

InitSched ==
    /\ ReconcileInit
    /\ build = "gin"
    /\ order.Payment = "wechat"
    /\ WsInit
    /\ CfgInit
    /\ SchedInit
    /\ TickInit
    /\ CreateInit
    /\ AnswerInit
    /\ HeartInit
    /\ WriteInit

SpecSched == InitSched /\ [][SchedNext]_vars

\* The goroutine is scheduled, its sleeps end and its queries return.
SpecSchedLive == SpecSched /\ WF_vars(SchedNext)

----------------------------------------------------------------------------
(* The loop of startPaymentPolling with both the clock and the row: a pass  *)
(* takes the answer of QueryOrder, writes what updateOrderStatusFromQuery   *)
(* writes, and returns, leaves the loop or goes to sleep.                   *)

\* The row after a pass whose QueryOrder failed, had the pass written
\* "unknown" as the query after the loop does.
RowAfterQueryError_unknown(row) == updateOrderStatus(row, "unknown")

\* The row after a pass whose QueryOrder failed: goto sleep, nothing written.
RowAfterQueryError(row) == row

LoopPass(result, duration) ==
    /\ sched.pc = "query"
    /\ now' = now + duration
    /\ IF result.err
       THEN /\ order' = RowAfterQueryError(order)
            /\ sched' = [sched EXCEPT !.pc = "sleep", !.lastEvent = "error"]
            /\ UNCHANGED <<BroadcastedOrders, pollPc, firstTerminal>>
       ELSE LET r == updateOrderStatusFromQuery(result)
                row == IF r.updated THEN updateOrderStatus(order, r.status)
                       ELSE order
                isFinalQuery == \/ sched.isFinalQuery
                                \/ sched.elapsedTime >= FiveMinutes
            IN /\ order' = row
               /\ firstTerminal' = NoteTerminal(order.Status, row.Status)
               /\ BroadcastedOrders' =
                    (BroadcastedOrders \/
                     (r.updated /\ r.status = "completed" /\ row.Payment = "wechat"))
               /\ IF r.updated /\ r.status \in Terminal
                  THEN /\ pollPc' = "done"
                       /\ sched' = [sched EXCEPT !.pc = "returned",
                                                 !.resolved = TRUE,
                                                 !.lastEvent = "query"]
                  ELSE /\ UNCHANGED pollPc
                       /\ sched' = [sched EXCEPT
                                      !.pc = IF isFinalQuery THEN "after" ELSE "sleep",
                                      !.isFinalQuery = isFinalQuery,
                                      !.lastEvent = "query"]
    /\ UNCHANGED <<build, currentDonation, wh, broadcasts, enrichments>>
    /\ UNCHANGED <<startTime, backToBack>>
    /\ UNCHANGED <<wsVars, cfgVars, tickVars, createVars, answerVars, heartVars,
                   writeVars>>

\* time.Sleep(sleepDuration) at the label sleep; the mark of a failed query
\* stays until the next pass has queried.
LoopSleep ==
    /\ sched.pc = "sleep"
    /\ now' = now + sched.sleepDuration
    /\ sched' = [sched EXCEPT !.pc = "top"]
    /\ UNCHANGED <<startTime, backToBack>>
    /\ UNCHANGED notSched

LoopQuery ==
    \E result \in QueryOutcomes, duration \in QueryDurations :
        LoopPass(result, duration)

LoopNext ==
    \/ SchedStart
    \/ SchedTop
    \/ LoopQuery
    \/ LoopSleep

\* The row is as created, or already written by a callback or an earlier pass.
InitLoop ==
    /\ build = "gin"
    /\ order \in { [Status |-> st, Payment |-> "wechat",
                    OpenID |-> "anonymous", PayerUID |-> ""] :
                   st \in {"pending", "unknown", "completed", "failed"} }
    /\ BroadcastedOrders = FALSE
    /\ pollPc = "loop"
    /\ currentDonation = ""
    /\ wh = [w \in Webhooks |-> IdleWebhook]
    /\ broadcasts = 0
    /\ enrichments = 0
    /\ firstTerminal = IF order.Status \in Terminal THEN order.Status ELSE ""
    /\ WsInit
    /\ CfgInit
    /\ SchedInit
    /\ TickInit
    /\ CreateInit
    /\ AnswerInit
    /\ HeartInit
    /\ WriteInit

SpecLoop == InitLoop /\ [][LoopNext]_vars

----------------------------------------------------------------------------
(* One pass of the poller's loop on a row in any status the row can have    *)
(* when a pass begins, with the answer kept for comparison.                 *)

\* QueryOrder returns an answer that carries an order_status.
TickQuery(result) ==
    /\ pollPc = "loop"
    /\ tick.phase \in {"none", "applied"}
    /\ ~result.err /\ result.bizOk /\ result.result_code # "FAIL"
    /\ result.dataOk /\ result.statusOk
    /\ tick' = [phase |-> "asked", order_status |-> result.order_status,
                before |-> order.Status, updated |-> FALSE, status |-> ""]
    /\ UNCHANGED reconcileVars
    /\ UNCHANGED notTick

\* updateOrderStatusFromQuery on that answer, and the test that follows it.
TickApply ==
    /\ tick.phase = "asked"
    /\ LET r == updateOrderStatusFromQuery(
                    QueryResult(FALSE, TRUE, "SUCCESS", "", TRUE, TRUE,
                                tick.order_status))
           row == IF r.updated THEN updateOrderStatus(order, r.status) ELSE order
       IN /\ order' = row
          /\ firstTerminal' = NoteTerminal(order.Status, row.Status)
          /\ BroadcastedOrders' =
               (BroadcastedOrders \/
                (r.updated /\ r.status = "completed" /\ row.Payment = "wechat"))
          /\ pollPc' = IF r.updated /\ r.status \in Terminal THEN "done" ELSE "loop"
          /\ tick' = [tick EXCEPT !.phase = "applied", !.updated = r.updated,
                                  !.status = r.status]
    /\ UNCHANGED <<build, currentDonation, wh, broadcasts, enrichments>>
    /\ UNCHANGED notTick

TickAsk == \E result \in QueryOutcomes : TickQuery(result)

TickNext ==
    \/ TickAsk
    \/ TickApply

\* The pass begins on a row in any status: pending as created, unknown after
\* an earlier pass, completed or failed after a callback.
InitTick ==
    /\ build \in {"gin", "fasthttp"}
    /\ order \in { [Status |-> st, Payment |-> pay,
                    OpenID |-> "anonymous", PayerUID |-> ""] :
                   st \in {"pending", "unknown", "completed", "failed"},
                   pay \in {"wechat", "alipay"} }
    /\ BroadcastedOrders \in BOOLEAN
    /\ pollPc = "loop"
    /\ currentDonation = ""
    /\ wh = [w \in Webhooks |-> IdleWebhook]
    /\ broadcasts = 0
    /\ enrichments = 0
    /\ firstTerminal = IF order.Status \in Terminal THEN order.Status ELSE ""
    /\ WsInit
    /\ CfgInit
    /\ SchedInit
    /\ TickInit
    /\ CreateInit
    /\ AnswerInit
    /\ HeartInit
    /\ WriteInit

SpecTick == InitTick /\ [][TickNext]_vars

----------------------------------------------------------------------------
(* Order creation: CreateDonation / CreateDonationForm of the routes and    *)
(* CreateOrder from its parameter validation on (services/payment.go).      *)

\* Amounts in ten-thousandths: 0.01, 10000 and the routes' epsilon 0.0001.
MinAmount == 100
MaxAmount == 100000000
epsilon == 1

\* Go's comparisons on float64: every comparison with NaN is false.
Less(amount, units) == ~amount.isNaN /\ amount.units < units
Greater(amount, units) == ~amount.isNaN /\ amount.units > units
LessOrEqual(amount, units) == ~amount.isNaN /\ amount.units <= units

\* The amounts requests carry.  The JSON body cannot carry NaN (json.Unmarshal
\* rejects it); strconv.ParseFloat of the form field accepts "NaN".
Amounts ==
    { Amount(FALSE, u) : u \in {-100, 0, 90, 99, 100, 150, MaxAmount,
                                MaxAmount + epsilon, MaxAmount + 100} }
    \cup {Amount(TRUE, 0)}

\* The JSON routes' range test with epsilon.
JsonRouteRejects(amount) ==
    Less(amount, MinAmount - epsilon) \/ Greater(amount, MaxAmount + epsilon)

\* The form routes' test after ParseFloat.
FormRouteRejects(amount) == LessOrEqual(amount, 0)

\* CreateOrder's range test.
AmountOutOfRange(amount) ==
    Less(amount, MinAmount) \/ Greater(amount, MaxAmount)

\* int64(math.Round(amount * 100)), raised to 1 when below it.  The
\* conversion of NaN gives a value below 1 on amd64 and arm64.
TotalAmount(amount) ==
    LET rounded == IF amount.isNaN THEN 0
                   ELSE IF amount.units >= 0 THEN (amount.units + 50) \div 100
                   ELSE 0 - ((50 - amount.units) \div 100)
    IN IF rounded < 1 THEN 1 ELSE rounded

\* The row CreateOrder builds, with a status other than pending.
NewDonation_unknown(j, orderID, amount) ==
    [ID |-> j, OrderID |-> orderID, Amount |-> amount, Status |-> "unknown"]

\* The row CreateOrder builds.
NewDonation(j, orderID, amount) ==
    [ID |-> j, OrderID |-> orderID, Amount |-> amount, Status |-> "pending"]

\* A route receives the request and tests the amount.
ReceiveDonation(j, entry, amount) ==
    /\ cr[j].pc = "idle"
    /\ j > 1 => cr[j - 1].pc # "idle"
    /\ entry = "json" => ~amount.isNaN
    /\ LET rejects == IF entry = "json" THEN JsonRouteRejects(amount)
                      ELSE FormRouteRejects(amount)
       IN cr' = [cr EXCEPT ![j] = [@ EXCEPT !.entry = entry, !.amount = amount,
                                            !.pc = IF rejects THEN "done" ELSE "service",
                                            !.ret = IF rejects THEN "400" ELSE ""]]
    /\ UNCHANGED <<second, donations, tasks>>
    /\ UNCHANGED notCreate

\* CreateOrder: range test, order id, amount in minor units.
BuildOrder(j, r) ==
    /\ cr[j].pc = "service"
    /\ IF AmountOutOfRange(cr[j].amount)
       THEN cr' = [cr EXCEPT ![j] = [@ EXCEPT !.pc = "done", !.ret = "amount"]]
       ELSE cr' = [cr EXCEPT ![j] = [@ EXCEPT !.pc = "built",
                                             !.orderID = <<second, r>>,
                                             !.totalAmount = TotalAmount(cr[j].amount)]]
    /\ UNCHANGED <<second, donations, tasks>>
    /\ UNCHANGED notCreate

\* utils.DB.Create(&donation)
PersistOrder(j, dbOk) ==
    /\ cr[j].pc = "built"
    /\ IF dbOk
       THEN /\ donations' = donations \cup
                               {NewDonation(j, cr[j].orderID, cr[j].amount)}
            /\ cr' = [cr EXCEPT ![j] = [@ EXCEPT !.pc = "persisted",
                                                 !.persisted = @ + 1]]
       ELSE /\ cr' = [cr EXCEPT ![j] = [@ EXCEPT !.pc = "done", !.ret = "db"]]
            /\ UNCHANGED donations
    /\ UNCHANGED <<second, tasks>>
    /\ UNCHANGED notCreate

\* go ps.startPaymentPolling(orderID)
SpawnPoller(j) ==
    /\ cr[j].pc = "persisted"
    /\ tasks' = tasks \cup {[ID |-> j, OrderID |-> cr[j].orderID, queried |-> FALSE]}
    /\ cr' = [cr EXCEPT ![j] = [@ EXCEPT !.pc = "spawned", !.spawned = @ + 1]]
    /\ UNCHANGED <<second, donations>>
    /\ UNCHANGED notCreate

\* return orderID, payURL, nil
ReturnOrder(j) ==
    /\ cr[j].pc = "spawned"
    /\ cr' = [cr EXCEPT ![j] = [@ EXCEPT !.pc = "done", !.ret = "ok"]]
    /\ UNCHANGED <<second, donations, tasks>>
    /\ UNCHANGED notCreate

\* A started poller makes its first gateway query.
TaskQuery(t) ==
    /\ t \in tasks
    /\ ~t.queried
    /\ tasks' = (tasks \ {t}) \cup {[t EXCEPT !.queried = TRUE]}
    /\ UNCHANGED <<second, cr, donations>>
    /\ UNCHANGED notCreate

\* The clock reaches the next second.
NextSecond ==
    /\ second < MaxSeconds
    /\ second' = second + 1
    /\ UNCHANGED <<cr, donations, tasks>>
    /\ UNCHANGED notCreate

\* The amounts of the requests whose orders are followed to their return:
\* one the route refuses, one CreateOrder refuses, one that is accepted.
OrderAmounts == {Amount(FALSE, u) : u \in {0, MinAmount - epsilon, MinAmount}}

CreateDonation ==
    \E j \in Callers, amount \in OrderAmounts :
        ReceiveDonation(j, "json", amount)

CreateOrderBuild == \E j \in Callers, r \in Rands : BuildOrder(j, r)

CreateOrderPersist == \E j \in Callers, dbOk \in BOOLEAN : PersistOrder(j, dbOk)

CreateOrderSpawn == \E j \in Callers : SpawnPoller(j)

CreateOrderReturn == \E j \in Callers : ReturnOrder(j)

PollerQuery == \E t \in tasks : TaskQuery(t)

CreateNext ==
    \/ CreateDonation
    \/ CreateOrderBuild
    \/ CreateOrderPersist
    \/ CreateOrderSpawn
    \/ CreateOrderReturn
    \/ PollerQuery
    \/ NextSecond

InitCreate ==
    /\ ReconcileInit
    /\ build = "gin"
    /\ order.Payment = "wechat"
    /\ WsInit
    /\ CfgInit
    /\ SchedInit
    /\ TickInit
    /\ CreateInit
    /\ AnswerInit
    /\ HeartInit
    /\ WriteInit

SpecCreate == InitCreate /\ [][CreateNext]_vars

\* The tests of the amount alone, over every amount of Amounts and both kinds
\* of route.
AmountJson ==
    \E j \in Callers, amount \in Amounts : ReceiveDonation(j, "json", amount)

AmountForm ==
    \E j \in Callers, amount \in Amounts : ReceiveDonation(j, "form", amount)

AmountNext ==
    \/ AmountJson
    \/ AmountForm
    \/ CreateOrderBuild

SpecAmount == InitCreate /\ [][AmountNext]_vars

----------------------------------------------------------------------------
(* The HTTP answer of CreateDonation / CreateDonationForm: the route's own  *)
(* tests, the error CreateOrder returns, and the status code the handler    *)
(* writes for it.                                                           *)

PaymentMethods == {"wechat", "alipay"}

\* The payment values requests carry: absent, the two supported, one other.
Payments == {"", "wechat", "alipay", "paypal"}

\* What the route tests before it calls CreateOrder.
RouteRejects(route, amount, payment) ==
    IF route = "json"
    THEN \/ IF build = "gin"
            THEN amount.units = 0 \/ payment \notin PaymentMethods
            ELSE payment = ""
         \/ JsonRouteRejects(amount)
    ELSE \/ payment = ""
         \/ FormRouteRejects(amount)
         \/ payment \notin PaymentMethods

\* The handler's status for an error of CreateOrder.
ErrorStatus(err) == 500

\* The request arrives; the route refuses it with 400 or starts the
\* goroutine that calls CreateOrder.
HandleDonation(j, route, amount, payment) ==
    /\ rq[j].pc = "idle"
    /\ j > 1 => rq[j - 1].pc # "idle"
    /\ route = "json" => ~amount.isNaN
    /\ rq' = [rq EXCEPT ![j] =
                 [@ EXCEPT !.route = route, !.amount = amount, !.payment = payment,
                           !.pc = IF RouteRejects(route, amount, payment)
                                  THEN "answered" ELSE "called",
                           !.status = IF RouteRejects(route, amount, payment)
                                      THEN 400 ELSE 0]]
    /\ UNCHANGED notAnswer

\* CreateOrder returns: the amount test, the payment test, and whatever
\* comes after them (other says whether a later step fails).
CreateOrderResult(j, other) ==
    /\ rq[j].pc = "called"
    /\ rq' = [rq EXCEPT ![j] =
                 [@ EXCEPT !.pc = "returned",
                           !.err = IF AmountOutOfRange(rq[j].amount) THEN "amount"
                                   ELSE IF rq[j].payment \notin PaymentMethods
                                        THEN "payment"
                                   ELSE IF other THEN "other" ELSE ""]]
    /\ UNCHANGED notAnswer

\* case res := <-resultChan
AnswerResult(j) ==
    /\ rq[j].pc = "returned"
    /\ rq' = [rq EXCEPT ![j] =
                 [@ EXCEPT !.pc = "answered",
                           !.status = IF rq[j].err # "" THEN ErrorStatus(rq[j].err)
                                      ELSE IF rq[j].route = "json" THEN 200
                                      ELSE 302]]
    /\ UNCHANGED notAnswer

\* case <-ctx.Done(): the 15 s have passed before CreateOrder's result
\* was taken.
AnswerTimeout(j) ==
    /\ rq[j].pc \in {"called", "returned"}
    /\ rq' = [rq EXCEPT ![j] = [@ EXCEPT !.pc = "answered", !.status = 408]]
    /\ UNCHANGED notAnswer

DonationRequest ==
    \E j \in Callers, route \in {"json", "form"}, amount \in Amounts,
       payment \in Payments : HandleDonation(j, route, amount, payment)

DonationCreateOrder == \E j \in Callers, other \in BOOLEAN : CreateOrderResult(j, other)

DonationAnswer == \E j \in Callers : AnswerResult(j)

DonationTimeout == \E j \in Callers : AnswerTimeout(j)

AnswerNext ==
    \/ DonationRequest
    \/ DonationCreateOrder
    \/ DonationAnswer
    \/ DonationTimeout

InitAnswer ==
    /\ ReconcileInit
    /\ order.Payment = "wechat"
    /\ WsInit
    /\ CfgInit
    /\ SchedInit
    /\ TickInit
    /\ CreateInit
    /\ AnswerInit
    /\ HeartInit
    /\ WriteInit

SpecAnswer == InitAnswer /\ [][AnswerNext]_vars

----------------------------------------------------------------------------
(* Heartbeats (unnamed/part_005): the read loop of each connection and the *)
(* checker started by NewWebSocketManager.  A run of checkHeartbeats is     *)
(* taken to lie within one second; pings and disconnects interleave with    *)
(* its visits.                                                              *)

\* time.Since(clientConn.LastHeart) > m.HeartbeatTimeout, at the timeout too
HeartbeatExpired_atTimeout(age) == age >= HeartbeatTimeout

\* time.Since(clientConn.LastHeart) > m.HeartbeatTimeout
HeartbeatExpired(age) == age > HeartbeatTimeout

\* HandleWebSocket: LastHeart: time.Now(), m.Clients.Store
HeartConnect(c) ==
    /\ hb[c].state = "none"
    /\ hb' = [hb EXCEPT ![c] = [state |-> "open", age |-> 0, by |-> ""]]
    /\ UNCHANGED <<untilCheck, checking>>
    /\ UNCHANGED notHeart

\* handleClientConn reads a ping (a PingMessage or the text "ping"), sets
\* LastHeart and answers; a failed answer ends the loop.
HeartPing(c, pongOk) ==
    /\ hb[c].state = "open"
    /\ hb' = [hb EXCEPT ![c] = IF pongOk THEN [@ EXCEPT !.age = 0]
                                ELSE [state |-> "none", age |-> 0, by |-> "pong"]]
    /\ UNCHANGED <<untilCheck, checking>>
    /\ UNCHANGED notHeart

\* ReadMessage fails: the deferred cleanup deletes and closes.
HeartReadError(c) ==
    /\ hb[c].state = "open"
    /\ hb' = [hb EXCEPT ![c] = [state |-> "none", age |-> 0, by |-> "reader"]]
    /\ UNCHANGED <<untilCheck, checking>>
    /\ UNCHANGED notHeart

\* A second passes.
HeartSecond ==
    /\ checking = {}
    /\ untilCheck > 0
    /\ untilCheck' = untilCheck - 1
    /\ hb' = [c \in ConnIDs |->
                IF hb[c].state = "open" /\ hb[c].age < Stale
                THEN [hb[c] EXCEPT !.age = @ + 1] ELSE hb[c]]
    /\ UNCHANGED checking
    /\ UNCHANGED notHeart

\* <-ticker.C; m.checkHeartbeats() begins to range over the pool.
checkHeartbeats ==
    /\ untilCheck = 0
    /\ checking = {}
    /\ untilCheck' = HeartbeatInterval
    /\ checking' = {c \in ConnIDs : hb[c].state = "open"}
    /\ UNCHANGED hb
    /\ UNCHANGED notHeart

\* The function checkHeartbeats passes to Range, on one connection.
CheckVisit(c) ==
    /\ c \in checking
    /\ checking' = checking \ {c}
    /\ hb' = [hb EXCEPT ![c] =
                 IF hb[c].state = "open" /\ HeartbeatExpired(hb[c].age)
                 THEN [state |-> "none", age |-> 0, by |-> "checker"]
                 ELSE @]
    /\ UNCHANGED untilCheck
    /\ UNCHANGED notHeart

HeartUpgrade == \E c \in ConnIDs : HeartConnect(c)

HeartPingRead == \E c \in ConnIDs, pongOk \in BOOLEAN : HeartPing(c, pongOk)

HeartDisconnect == \E c \in ConnIDs : HeartReadError(c)

HeartCheckVisit == \E c \in ConnIDs : CheckVisit(c)

HeartNext ==
    \/ HeartUpgrade
    \/ HeartPingRead
    \/ HeartDisconnect
    \/ HeartSecond
    \/ checkHeartbeats
    \/ HeartCheckVisit

InitHeart ==
    /\ ReconcileInit
    /\ build = "fasthttp"
    /\ order.Payment = "wechat"
    /\ WsInit
    /\ CfgInit
    /\ SchedInit
    /\ TickInit
    /\ CreateInit
    /\ AnswerInit
    /\ HeartInit
    /\ WriteInit

SpecHeart == InitHeart /\ [][HeartNext]_vars

----------------------------------------------------------------------------
(* Conn.WriteMessage as a call that takes time (unnamed/part_005): the     *)
(* goroutines of the broadcasts and the read loop's pong enter it and      *)
(* leave it; ClientConn carries no lock.                                    *)

\* The read loop's reply to a ping, as a writer of its connection.
Pong(c) == [conn |-> c, retryCount |-> 0, broadcast |-> 0, kind |-> "pong"]

\* A goroutine of a broadcast calls clientConn.Conn.WriteMessage.
WriteEnter(w) ==
    /\ w \in writes
    /\ w \notin writing
    /\ writing' = writing \cup {w}
    /\ UNCHANGED wsVars
    /\ UNCHANGED notWrite

\* That call returns: success ends the goroutine; a failure is retried by
\* BroadcastToSpecific until maxRetries, and then, or at once in Broadcast,
\* the connection is closed and deleted.
WriteLeave(w, ok) ==
    /\ w \in writing
    /\ w \in writes
    /\ ok => Clients[w.conn].state = "open"
    /\ writing' = writing \ {w}
    /\ IF ok
       THEN writes' = writes \ {w} /\ UNCHANGED Clients
       ELSE IF w.kind = "all" \/ RetriesExhausted(w.retryCount)
            THEN /\ writes' = writes \ {w}
                 /\ Clients' = [Clients EXCEPT ![w.conn].state = "closed"]
            ELSE /\ writes' = (writes \ {w}) \cup
                                {[w EXCEPT !.retryCount = w.retryCount + 1]}
                 /\ UNCHANGED Clients
    /\ UNCHANGED <<lastBroadcast, sent>>
    /\ UNCHANGED notWrite

\* handleClientConn has read a ping and calls WriteMessage for the pong.
PongEnter(c) ==
    /\ Clients[c].state = "open"
    /\ Pong(c) \notin writing
    /\ writing' = writing \cup {Pong(c)}
    /\ UNCHANGED wsVars
    /\ UNCHANGED notWrite

\* The pong's WriteMessage returns; a failure ends the read loop.
PongLeave(c, ok) ==
    /\ Pong(c) \in writing
    /\ ok => Clients[c].state = "open"
    /\ writing' = writing \ {Pong(c)}
    /\ Clients' = IF ok THEN Clients ELSE [Clients EXCEPT ![c].state = "closed"]
    /\ UNCHANGED <<writes, lastBroadcast, sent>>
    /\ UNCHANGED notWrite

BroadcastWriteBegin == \E w \in writes : WriteEnter(w)

BroadcastWriteEnd == \E w \in writing, ok \in BOOLEAN : WriteLeave(w, ok)

PongBegin == \E c \in ConnIDs : PongEnter(c)

PongEnd == \E c \in ConnIDs, ok \in BOOLEAN : PongLeave(c, ok)

WriteNext ==
    \/ Upgrade
    \/ TargetedBroadcast
    \/ Broadcast
    \/ BroadcastWriteBegin
    \/ BroadcastWriteEnd
    \/ PongBegin
    \/ PongEnd

SpecWrite == InitWs /\ [][WriteNext]_vars

----------------------------------------------------------------------------
(* Properties.                                                             *)

\* No callback request is being handled and the poller has returned.
Quiescent ==
    /\ pollPc = "done"
    /\ \A w \in Webhooks : wh[w].pc \in {"idle", "done"}

\* C1: once the row is completed or failed, no pass of the polling loop and no
\* callback changes it to unknown or pending (the step after the loop is the
\* subject of C2 and is left out here).
C1_TerminalNeverRegresses ==
    [][(order.Status \in Terminal /\ pollPc # "final")
         => order'.Status \notin {"unknown", "pending"}]_vars

\* C2: the write that follows the poller's final query never changes a row
\* that is completed or failed at the moment of that write.
C2_ExpiryKeepsTerminal ==
    [][(pollPc = "final" /\ pollPc' = "done" /\ order.Status \in Terminal)
         => order'.Status = order.Status]_vars

\* C3: a completed row never becomes failed and a failed row never becomes
\* completed.
C3_TerminalNeverFlips ==
    [][/\ order.Status = "completed" => order'.Status # "failed"
       /\ order.Status = "failed" => order'.Status # "completed"]_vars

\* C4: the write that first made the row terminal is the only one that takes
\* effect: from then on the row keeps the status that write gave it.
C4_FirstTerminalWriteStands ==
    firstTerminal # "" => order.Status = firstTerminal

\* C5: for the order, a broadcast is triggered at most once and a user-info
\* lookup is started at most once.
C5_BroadcastAndEnrichmentOnce ==
    broadcasts <= 1 /\ enrichments <= 1

\* C6: a request whose signature verifies and whose handler read the row as
\* completed writes nothing to the row and is answered "success".
C6_DuplicateAckedWithoutWrite ==
    \A w \in Webhooks :
        (SignatureOk(wh[w].data) /\ wh[w].donation.Status = "completed")
          => /\ ~wh[w].wrote
             /\ wh[w].ack \in {"none", "success"}
             /\ wh[w].pc = "done" => wh[w].ack = "success"

C6_Witness ==
    \E w \in Webhooks :
        /\ wh[w].pc = "done"
        /\ SignatureOk(wh[w].data)
        /\ wh[w].donation.Status = "completed"
        /\ wh[w].ack = "success"
        /\ order.Status = "completed"

\* C7: a request whose signature is missing or does not verify is not answered
\* "success" and writes nothing to the row.
C7_BadSignatureRejected ==
    \A w \in Webhooks :
        (wh[w].pc = "done" /\ ~SignatureOk(wh[w].data))
          => wh[w].ack # "success" /\ ~wh[w].wrote

\* C8: for a request whose signature verifies, "success" has been answered by
\* the time the row is written, and the answer is "success" whatever happens to
\* that write.
C8_AckBeforeWrite ==
    \A w \in Webhooks :
        SignatureOk(wh[w].data)
          => /\ wh[w].wrote => wh[w].ack = "success"
             /\ wh[w].pc = "done" => wh[w].ack = "success"

\* C9: when everything started for a completed order has run to its end, a
\* broadcast of the order has been triggered.
C9_CompletedIsBroadcast ==
    (Quiescent /\ order.Status = "completed") => broadcasts >= 1

C11_FilterMatchesSubscribers ==
    [][sent' = sent + 1 =>
         \A c \in Pool :
            c \in lastBroadcast'.targets <=>
                /\ Clients[c].Payment \in {"", lastBroadcast'.payment}
                /\ Clients[c].Categories \in {"", lastBroadcast'.categories}]_vars

\* C12: the cache entry stored under a config id holds the terminal and the
\* terminal key of that id, never another tenant's.
C12_CacheEntryBelongsToConfigID ==
    \A id \in ConfigIDs :
        configCache[id] # NoConfig =>
            /\ configCache[id].TerminalSN = id
            /\ configCache[id].TerminalKey[1] = id

\* C13: the sign CreateOrder puts in the redirect URL is made with the
\* terminal key of the configuration the call resolved for its order.
C13_SignUsesResolvedSecret ==
    \A i \in Callers :
        co[i].pc = "done" => co[i].sign = co[i].currentConfig.TerminalKey

\* C14: every CreateOrder for a config id comes out of the date test with a
\* sign-in made for that id on that day, and no sign-in is made for an id
\* after a successful one for it on the same day.
C14_SignInOncePerDayPerConfig ==
    /\ \A i \in Callers :
          co[i].pc \in {"signin", "checkin", "sign", "gensign", "done"} =>
              co[i].currentDate \in signInDays[co[i].paymentConfigID].made
    /\ ~repeatedSignIn

C16_PollsWholeWindowOneFinalQuery ==
    /\ ~backToBack
    /\ (sched.pc = "returned" /\ ~sched.resolved) => now - startTime >= 350

RowsOf(j) == {d \in donations : d.ID = j}
PollersOf(j) == {t \in tasks : t.ID = j}

\* C18: a call of CreateOrder that returns success has persisted exactly one
\* row, in status pending, and has started exactly one poller, for that row's
\* order id; a call that returns an error has started none; and once the
\* poller is started the return is enabled whatever the poller has done.
C18_OneRowOnePollerNoWait ==
    \A j \in Callers :
        /\ cr[j].ret = "ok" =>
              /\ cr[j].persisted = 1
              /\ cr[j].spawned = 1
              /\ RowsOf(j) = {NewDonation(j, cr[j].orderID, cr[j].amount)}
              /\ \A d \in RowsOf(j) : d.Status = "pending"
              /\ Cardinality(PollersOf(j)) = 1
              /\ \A t \in PollersOf(j) : t.OrderID = cr[j].orderID
        /\ cr[j].ret \in {"400", "amount", "db"} =>
              /\ RowsOf(j) = {}
              /\ PollersOf(j) = {}
        /\ cr[j].pc = "spawned" => ENABLED ReturnOrder(j)

\* A call has returned success and its poller has made no query yet.
C18_Witness ==
    \E j \in Callers :
        /\ cr[j].ret = "ok"
        /\ \E t \in PollersOf(j) : ~t.queried

\* C19: any two rows persisted by CreateOrder have distinct order ids.
C19_OrderIDsDistinct ==
    \A d1, d2 \in donations : d1.ID # d2.ID => d1.OrderID # d2.OrderID

\* The call has passed, or has failed, CreateOrder's test of the amount.
AmountDecided(j) ==
    \/ cr[j].pc \in {"built", "persisted", "spawned"}
    \/ cr[j].ret \in {"ok", "db", "amount"}

\* C20: CreateOrder accepts an amount if and only if it is a number between
\* 0.01 and 10000.00, and the amount 0.01 becomes 1 minor unit.
C20_AmountAcceptedIffInRange ==
    \A j \in Callers :
        AmountDecided(j) =>
            /\ cr[j].ret # "amount" <=>
                  /\ ~cr[j].amount.isNaN
                  /\ cr[j].amount.units >= MinAmount
                  /\ cr[j].amount.units <= MaxAmount
            /\ (cr[j].ret # "amount" /\ cr[j].amount = Amount(FALSE, MinAmount))
                  => cr[j].totalAmount = 1

\* C21: a request whose amount is outside 0.01 .. 10000.00 or whose payment
\* method is not a supported one is answered with a 4xx status, never a 5xx.
C21_ValidationErrorIs4xx ==
    \A j \in Callers :
        ( /\ rq[j].pc = "answered"
          /\ \/ rq[j].amount.isNaN
             \/ rq[j].amount.units < MinAmount
             \/ rq[j].amount.units > MaxAmount
             \/ rq[j].payment \notin PaymentMethods )
        => (rq[j].status >= 400 /\ rq[j].status < 500)

\* C22: when checkHeartbeats visits a connection of the pool, it removes the
\* connection if and only if its last heartbeat is more than 30 s old; a
\* connection whose last ping is at most 30 s old stays.
C22_CheckerPrunesExactlyTheStale ==
    [][\A c \in ConnIDs :
          (c \in checking /\ c \notin checking' /\ hb[c].state = "open") =>
              /\ hb[c].age > HeartbeatTimeout => hb'[c].state = "none"
              /\ hb[c].age <= HeartbeatTimeout => hb'[c] = hb[c]
              /\ \A d \in ConnIDs \ {c} : hb'[d] = hb[d]]_vars

\* The checker has removed one connection while another, which has pinged,
\* is still in the pool.
C22_Witness ==
    \E c, d \in ConnIDs :
        /\ hb[c].by = "checker"
        /\ hb[d].state = "open"
        /\ hb[d].age < hb[c].age + HeartbeatInterval
        /\ untilCheck = HeartbeatInterval
        /\ checking = {}

\* The goroutine of a send has used up its attempts when this write fails.
LastAttempt(w) ==
    IF w.kind = "specific" THEN RetriesExhausted(w.retryCount) ELSE TRUE

\* C23: no send is tried more than 2 times; a write that fails on the last
\* attempt closes and removes its own connection and no other, a write closes
\* a connection in no other case, and the sends to the other connections
\* stay pending.
C23_BoundedRetryDropsOnlyOffender ==
    [][/\ \A w \in writes : w.retryCount + 1 <= 2
       /\ (writes' # writes /\ sent' = sent) =>
             \E w \in writes \ writes' :
                 /\ \A v \in writes \ {w} : v \in writes'
                 /\ \A d \in ConnIDs \ {w.conn} : Clients'[d] = Clients[d]
                 /\ Clients'[w.conn] # Clients[w.conn] =>
                       /\ LastAttempt(w)
                       /\ Clients'[w.conn].state = "closed"]_vars

\* A send has dropped one connection after its failures while another
\* connection is registered with its own send still to come.
C23_Witness ==
    \E c, d \in ConnIDs :
        /\ c # d
        /\ Clients[c].state = "closed"
        /\ c \in lastBroadcast.targets
        /\ \A w \in writes : w.conn # c
        /\ Clients[d].state = "open"
        /\ \E w \in writes : w.conn = d /\ w.broadcast = sent

\* C24: when the handler of a validly signed callback writes a pending row,
\* the row becomes completed if the transaction status, taken from the status
\* field or from its aliases, is a success status, and failed otherwise; a
\* success carried by an alias never makes the row failed.
C24_AliasedStatusMapped ==
    [][\A w \in Webhooks :
          ( /\ wh[w].pc = "update"
            /\ wh'[w].pc = "clear"
            /\ SignatureOk(wh[w].data)
            /\ order.Status = "pending" )
          => order'.Status = IF CallbackStatus(wh[w].data) \in successStatuses
                             THEN "completed" ELSE "failed"]_vars

\* C25: a pass of the loop whose QueryOrder fails leaves the row as it is and
\* does not end the poller: it goes to the sleep of the interval for the
\* elapsed time of that pass (3 s up to 60 s, 10 s after), and after exactly
\* that sleep the next pass begins.
C25_QueryErrorRetriedNextTick ==
    [][/\ (sched.pc = "query" /\ sched'.lastEvent = "error") =>
             /\ order' = order
             /\ pollPc' = pollPc
             /\ sched'.pc = "sleep"
             /\ sched'.resolved = sched.resolved
             /\ sched'.isFinalQuery = sched.isFinalQuery
             /\ sched'.sleepDuration =
                   IF sched.elapsedTime > 60 THEN 10 ELSE 3
       /\ (sched.pc = "sleep" /\ sched.lastEvent = "error") =>
             /\ sched'.pc = "top"
             /\ now' = now + (IF sched.elapsedTime > 60 THEN 10 ELSE 3)
             /\ order' = order]_vars

\* After a failed query late in the window, the poller is at the top of its
\* next pass, the row still pending.
C25_Witness ==
    /\ sched.pc = "top"
    /\ sched.lastEvent = "error"
    /\ sched.elapsedTime > 60
    /\ now - startTime = sched.elapsedTime + 10
    /\ order.Status = "pending"

\* The longest a poller can have run: a sleep begun just inside the window,
\* the query of the pass before it and the query after the loop.
PollingBudget == maxPollingTime + LongInterval + 2 * MaxQuerySeconds

\* C26: every poller returns; once a pass has written completed or failed it
\* has returned, with no further query or sleep; and a poller that does not
\* end that way ends within its budget of time, in which the sleeps between
\* queries leave room for a bounded number of queries only.
C26_PollerTerminates ==
    /\ <>(sched.pc = "returned")
    /\ [](sched.resolved => sched.pc = "returned")
    /\ [][sched.pc = "returned" => (now' = now /\ sched' = sched)]_vars
    /\ [](startTime >= 0 => now - startTime <= PollingBudget)
    /\ [][(sched.pc = "sleep" /\ sched'.pc = "top") => now' >= now + ShortInterval]_vars

\* The poller has returned straight after a pass early in the window that
\* wrote a final status.
C26_Witness ==
    /\ sched.pc = "returned"
    /\ sched.resolved
    /\ sched.lastEvent = "query"
    /\ ~sched.isFinalQuery
    /\ now - startTime < OneMinute

\* C27: when no call of CreateOrder is under way, the shared config of the
\* service is the one it was built with.
C27_SharedConfigRestored ==
    (\A i \in Callers : co[i].pc \in {"idle", "done"}) => config = DefaultConfig

\* C29: when the only call of CreateOrder made so far is one that was
\* refused, the config cache, the last sign-in date, the stored terminal
\* keys and the shared config are as they were before it.
C29_RejectedCallChangesNothing ==
    \A i \in Callers :
        ( /\ co[i].pc = "rejected"
          /\ \A j \in Callers \ {i} : co[j].pc = "idle" )
        => /\ configCache = [id \in ConfigIDs |-> NoConfig]
           /\ lastSignInDate = 0
           /\ dbConfig = [id \in ConfigIDs |-> <<id, 0>>]
           /\ config = DefaultConfig

\* C28: whenever a pay_success notification is broadcast for the order, the
\* row of the order is completed at that moment.
C28_BroadcastOnlyWhenCompleted ==
    [][broadcasts' > broadcasts => order.Status = "completed"]_vars

\* C30: at any moment at most one writer is inside WriteMessage on a given
\* connection.
C30_OneWriterPerConnection ==
    \A c \in ConnIDs : Cardinality({w \in writing : w.conn = c}) <= 1

============================================================================
